---- MODULE Spec2Model ----
(***************************************************************************)
(* Model of trakt-to-letterboxd.js: the script reads two JSON exports      *)
(* (watched movies, movie ratings), merges them in a Map keyed by the      *)
(* Trakt id, projects the Map to flat records and writes them as CSV.      *)
(*                                                                         *)
(* JSON objects are records whose DOMAIN holds exactly the keys present,   *)
(* so `item.movie && item.movie.ids` is a test on DOMAIN.  Scalars (title, *)
(* year, rating, imdb, tmdb) are modelled by their text, '' being the      *)
(* empty string.  A timestamp is a record: kind "undefined"/"null" for the *)
(* falsy values, "garbage" for a non-empty string Date cannot parse, and   *)
(* "instant" for a string parsing to the instant t.  A formatted date is a *)
(* day number, EmptyDate standing for ''.                                  *)
(***************************************************************************)
EXTENDS Integers, Sequences, FiniteSets, TLC

VARIABLES
    watchedFile,    \* content of watched-movies.json on disk
    ratingsFile,    \* content of ratings-movies.json on disk
    watchedData,    \* const watchedData (line 52)
    ratingsData,    \* const ratingsData (line 53)
    pc,             \* position inside processTraktData
    idx,            \* index of the next entry the running forEach visits
    mergedMovies,   \* const mergedMovies = new Map(), entries in insertion order
    records,        \* const records (line 142)
    csv,            \* content of letterboxd_import.csv
    updates         \* history: per Trakt id, writes to its entry after creation

vars == <<watchedFile, ratingsFile, watchedData, ratingsData, pc, idx,
          mergedMovies, records, csv, updates>>

----------------------------------------------------------------------------
(* Bounds *)

MaxEvents == 3
MaxKey == 2
MaxTime == 4

Keys == 1..MaxKey
Times == 1..MaxTime

----------------------------------------------------------------------------
(* Values *)

EmptyDate == 0

Undefined == [kind |-> "undefined", t |-> 0]
NullTs == [kind |-> "null", t |-> 0]
Garbage == [kind |-> "garbage", t |-> 0]
Instant(n) == [kind |-> "instant", t |-> n]

Has(obj, f) == f \in DOMAIN obj

\* the value of a timestamp property, undefined when the property is absent
Prop(obj, f) == IF Has(obj, f) THEN obj[f] ELSE Undefined

Falsy(ts) == ts.kind \in {"undefined", "null"}

\* x.f || ''
OrEmpty(obj, f) == IF Has(obj, f) THEN obj[f] ELSE ""

\* item.plays || 0
Plays(item) == IF Has(item, "plays") THEN item.plays ELSE 0

----------------------------------------------------------------------------
(* readJsonFile *)

Null == [kind |-> "null", items |-> <<>>]
Unread == [kind |-> "unread", items |-> <<>>]

ReadJsonFile(file) ==
    IF file.kind \in {"missing", "garbled"}
    THEN Null
    ELSE [kind |-> file.kind, items |-> file.items]

----------------------------------------------------------------------------
(* formatDate *)

\* the local calendar day an instant falls on: two instants to a day
LocalDay(t) == (t + 1) \div 2

FormatDate(ts) ==
    IF Falsy(ts) THEN EmptyDate
    ELSE IF ts.kind # "instant" THEN EmptyDate
    ELSE LocalDay(ts.t)

\* the comparison of line 107 turned around
DateLaterFlipped(a, b) == a.kind = "instant" /\ b.kind = "instant" /\ a.t < b.t

\* new Date(a) > new Date(b), false when either is an Invalid Date
DateLater(a, b) == a.kind = "instant" /\ b.kind = "instant" /\ a.t > b.t

----------------------------------------------------------------------------
(* Map *)

MapKeys(m) == {m[j].traktId : j \in DOMAIN m}
MapHas(m, k) == \E j \in DOMAIN m : m[j].traktId = k
MapIndex(m, k) == CHOOSE j \in DOMAIN m : m[j].traktId = k
MapGet(m, k) == m[MapIndex(m, k)]

\* a store that never finds the key it holds
MapSetAppends(m, k, v) == Append(m, v)

\* a store that deletes a held key and inserts it again, at the end
MapSetMovesToEnd(m, k, v) ==
    Append(SelectSeq(m, LAMBDA e : e.traktId # k), v)

MapSet(m, k, v) ==
    IF MapHas(m, k) THEN [m EXCEPT ![MapIndex(m, k)] = v] ELSE Append(m, v)

----------------------------------------------------------------------------
(* processTraktData: 1. watched movies *)

ValidWatched(item) ==
    /\ Has(item, "movie")
    /\ Has(item.movie, "ids")
    /\ Has(item.movie.ids, "trakt")
    /\ item.movie.ids.trakt # 0

\* plays >= 1 for plays > 1
RewatchAtLeastOnce(item) == Plays(item) >= 1

Rewatch(item) == Plays(item) > 1

WatchedInfo(item) ==
    [traktId |-> item.movie.ids.trakt,
     imdbID |-> OrEmpty(item.movie.ids, "imdb"),
     tmdbID |-> OrEmpty(item.movie.ids, "tmdb"),
     Title |-> OrEmpty(item.movie, "title"),
     Year |-> OrEmpty(item.movie, "year"),
     Rating10 |-> "",
     WatchedDate |-> FormatDate(Prop(item, "last_watched_at")),
     Rewatch |-> Rewatch(item),
     lastWatchedTimestamp |-> Prop(item, "last_watched_at")]

WatchedEntry(m, item) ==
    IF ValidWatched(item)
    THEN MapSet(m, item.movie.ids.trakt, WatchedInfo(item))
    ELSE m

----------------------------------------------------------------------------
(* processTraktData: 2. rated movies *)

\* line 94 without the test of item.type
ValidRatingAnyType(item) ==
    /\ Has(item, "movie")
    /\ Has(item.movie, "ids")
    /\ Has(item.movie.ids, "trakt")
    /\ item.movie.ids.trakt # 0

ValidRating(item) ==
    /\ Has(item, "type")
    /\ item.type = "movie"
    /\ Has(item, "movie")
    /\ Has(item.movie, "ids")
    /\ Has(item.movie.ids, "trakt")
    /\ item.movie.ids.trakt # 0

TakesRatingDate(existing, ratedAtTimestamp) ==
    /\ ~Falsy(ratedAtTimestamp)
    /\ \/ Falsy(existing.lastWatchedTimestamp)
       \/ DateLater(ratedAtTimestamp, existing.lastWatchedTimestamp)

MergedDate(existing, ratedAtDate, ratedAtTimestamp) ==
    IF TakesRatingDate(existing, ratedAtTimestamp) THEN ratedAtDate
    ELSE IF existing.WatchedDate = EmptyDate /\ ratedAtDate # EmptyDate
         THEN ratedAtDate
         ELSE existing.WatchedDate

\* line 103 keeping a rating the record already has
MergeRatingKeepsFirst(existing, item) ==
    [existing EXCEPT
        !.Rating10 = IF @ # "" THEN @ ELSE OrEmpty(item, "rating"),
        !.WatchedDate = MergedDate(existing, FormatDate(Prop(item, "rated_at")),
                                   Prop(item, "rated_at"))]

\* the merge also taking the title of the rating entry
MergeRatingTakesTitle(existing, item) ==
    [existing EXCEPT
        !.Rating10 = OrEmpty(item, "rating"),
        !.Title = OrEmpty(item.movie, "title"),
        !.WatchedDate = MergedDate(existing, FormatDate(Prop(item, "rated_at")),
                                   Prop(item, "rated_at"))]

MergeRating(existing, item) ==
    [existing EXCEPT
        !.Rating10 = OrEmpty(item, "rating"),
        !.WatchedDate = MergedDate(existing, FormatDate(Prop(item, "rated_at")),
                                   Prop(item, "rated_at"))]

RatingInfo(item) ==
    [traktId |-> item.movie.ids.trakt,
     imdbID |-> OrEmpty(item.movie.ids, "imdb"),
     tmdbID |-> OrEmpty(item.movie.ids, "tmdb"),
     Title |-> OrEmpty(item.movie, "title"),
     Year |-> OrEmpty(item.movie, "year"),
     Rating10 |-> OrEmpty(item, "rating"),
     WatchedDate |-> FormatDate(Prop(item, "rated_at")),
     Rewatch |-> FALSE,
     lastWatchedTimestamp |-> NullTs]

\* the rating pass without its else branch (lines 117-132)
RatingEntryMergesOnly(m, item) ==
    IF ValidRating(item) /\ MapHas(m, item.movie.ids.trakt)
    THEN MapSet(m, item.movie.ids.trakt,
                MergeRating(MapGet(m, item.movie.ids.trakt), item))
    ELSE m

RatingEntry(m, item) ==
    IF ValidRating(item)
    THEN IF MapHas(m, item.movie.ids.trakt)
         THEN MapSet(m, item.movie.ids.trakt,
                     MergeRating(MapGet(m, item.movie.ids.trakt), item))
         ELSE MapSet(m, item.movie.ids.trakt, RatingInfo(item))
    ELSE m

----------------------------------------------------------------------------
(* processTraktData: 3. records for the CSV writer *)

Record(movie) ==
    [imdbID |-> movie.imdbID,
     tmdbID |-> movie.tmdbID,
     Title |-> movie.Title,
     Year |-> movie.Year,
     Rating10 |-> movie.Rating10,
     WatchedDate |-> movie.WatchedDate,
     Rewatch |-> IF movie.Rewatch THEN "Yes" ELSE "No"]

Records(m) == [j \in DOMAIN m |-> Record(m[j])]

----------------------------------------------------------------------------
(* The two passes as folds, for statements about whole inputs *)

RECURSIVE SeedPass(_, _)
SeedPass(m, items) ==
    IF items = <<>> THEN m
    ELSE SeedPass(WatchedEntry(m, Head(items)), Tail(items))

RECURSIVE RatingPass(_, _)
RatingPass(m, items) ==
    IF items = <<>> THEN m
    ELSE RatingPass(RatingEntry(m, Head(items)), Tail(items))

Output(watched, ratings) == Records(RatingPass(SeedPass(<<>>, watched), ratings))

----------------------------------------------------------------------------
(* Actions *)

NoCsv == [state |-> "none", rows |-> <<>>]

Touched(item, valid) ==
    IF valid /\ MapHas(mergedMovies, item.movie.ids.trakt)
    THEN [updates EXCEPT ![item.movie.ids.trakt] = @ + 1]
    ELSE updates

ReadWatched ==
    /\ pc = "start"
    /\ watchedData' = ReadJsonFile(watchedFile)
    /\ pc' = "readRatings"
    /\ UNCHANGED <<watchedFile, ratingsFile, ratingsData, idx, mergedMovies,
                   records, csv, updates>>

ReadRatings ==
    /\ pc = "readRatings"
    /\ ratingsData' = ReadJsonFile(ratingsFile)
    /\ pc' = "check"
    /\ UNCHANGED <<watchedFile, ratingsFile, watchedData, idx, mergedMovies,
                   records, csv, updates>>

\* line 55 testing one of the two values only
InputsUsableWatchedOnly == watchedData # Null

\* line 55: !watchedData || !ratingsData is false
InputsUsable == watchedData # Null /\ ratingsData # Null

\* lines 55-58: return without touching anything
ExitOnNull ==
    /\ pc = "check"
    /\ ~InputsUsable
    /\ pc' = "exit"
    /\ UNCHANGED <<watchedFile, ratingsFile, watchedData, ratingsData, idx,
                   mergedMovies, records, csv, updates>>

\* lines 60-66
StartWatched ==
    /\ pc = "check"
    /\ InputsUsable
    /\ pc' = "watched"
    /\ idx' = 1
    /\ mergedMovies' = <<>>
    /\ UNCHANGED <<watchedFile, ratingsFile, watchedData, ratingsData,
                   records, csv, updates>>

\* forEach on a parsed value that is no array throws a TypeError, which
\* rejects the promise of processTraktData: nothing after it runs
ForEachThrows ==
    /\ \/ pc = "watched" /\ watchedData.kind # "array"
       \/ pc = "ratings" /\ ratingsData.kind # "array"
    /\ pc' = "crashed"
    /\ UNCHANGED <<watchedFile, ratingsFile, watchedData, ratingsData, idx,
                   mergedMovies, records, csv, updates>>

\* lines 67-86, one call of the callback
WatchedStep ==
    /\ pc = "watched"
    /\ watchedData.kind = "array"
    /\ idx <= Len(watchedData.items)
    /\ mergedMovies' = WatchedEntry(mergedMovies, watchedData.items[idx])
    /\ updates' = Touched(watchedData.items[idx],
                          ValidWatched(watchedData.items[idx]))
    /\ idx' = idx + 1
    /\ UNCHANGED <<watchedFile, ratingsFile, watchedData, ratingsData, pc,
                   records, csv>>

\* lines 87-92
StartRatings ==
    /\ pc = "watched"
    /\ watchedData.kind = "array"
    /\ idx > Len(watchedData.items)
    /\ pc' = "ratings"
    /\ idx' = 1
    /\ UNCHANGED <<watchedFile, ratingsFile, watchedData, ratingsData,
                   mergedMovies, records, csv, updates>>

\* lines 93-136, one call of the callback
RatingStep ==
    /\ pc = "ratings"
    /\ ratingsData.kind = "array"
    /\ idx <= Len(ratingsData.items)
    /\ mergedMovies' = RatingEntry(mergedMovies, ratingsData.items[idx])
    /\ updates' = Touched(ratingsData.items[idx],
                          ValidRating(ratingsData.items[idx]))
    /\ idx' = idx + 1
    /\ UNCHANGED <<watchedFile, ratingsFile, watchedData, ratingsData, pc,
                   records, csv>>

\* lines 137-151
Project ==
    /\ pc = "ratings"
    /\ ratingsData.kind = "array"
    /\ idx > Len(ratingsData.items)
    /\ records' = Records(mergedMovies)
    /\ pc' = "write"
    /\ UNCHANGED <<watchedFile, ratingsFile, watchedData, ratingsData, idx,
                   mergedMovies, csv, updates>>

\* lines 153-173
WriteRecords ==
    /\ pc = "write"
    /\ csv' = [state |-> "written", rows |-> records]
    /\ pc' = "done"
    /\ UNCHANGED <<watchedFile, ratingsFile, watchedData, ratingsData, idx,
                   mergedMovies, records, updates>>

\* lines 174-176: the write rejects, the error is logged
WriteFails ==
    /\ pc = "write"
    /\ csv' = [state |-> "failed", rows |-> <<>>]
    /\ pc' = "done"
    /\ UNCHANGED <<watchedFile, ratingsFile, watchedData, ratingsData, idx,
                   mergedMovies, records, updates>>

Next ==
    \/ ReadWatched
    \/ ReadRatings
    \/ ExitOnNull
    \/ StartWatched
    \/ ForEachThrows
    \/ WatchedStep
    \/ StartRatings
    \/ RatingStep
    \/ Project
    \/ WriteRecords
    \/ WriteFails

----------------------------------------------------------------------------
(* Inputs *)

SeqsUpTo(S, n) == UNION {[1..m -> S] : m \in 0..n}

Files(S, n) ==
    {[kind |-> k, items |-> <<>>] : k \in {"missing", "garbled", "object"}}
    \cup {[kind |-> "array", items |-> s] : s \in SeqsUpTo(S, n)}

InitOver(W, R) ==
    /\ watchedFile \in Files(W, MaxEvents)
    /\ ratingsFile \in Files(R, MaxEvents - Len(watchedFile.items))
    /\ watchedData = Unread
    /\ ratingsData = Unread
    /\ pc = "start"
    /\ idx = 1
    /\ mergedMovies = <<>>
    /\ records = <<>>
    /\ csv = NoCsv
    /\ updates = [k \in Keys |-> 0]

\* watch entries: one malformed entry of each shape, and for every key a
\* fully filled entry, a bare one and one with a single play
FullIds(k) == [trakt |-> k, imdb |-> "tt1", tmdb |-> "11"]

WatchedItems ==
    {[last_watched_at |-> Instant(2), plays |-> 2],
     [movie |-> [title |-> "A"], plays |-> 2],
     [movie |-> [ids |-> [imdb |-> "tt1"], title |-> "A"]]}
    \cup {[movie |-> [ids |-> FullIds(k), title |-> "A", year |-> "2000"],
           last_watched_at |-> Instant(2), plays |-> 2] : k \in Keys}
    \cup {[movie |-> [ids |-> [trakt |-> k]]] : k \in Keys}
    \cup {[movie |-> [ids |-> [trakt |-> k], title |-> "B"],
           last_watched_at |-> Garbage, plays |-> 1] : k \in Keys}

RatingItems ==
    {[type |-> "show", movie |-> [ids |-> [trakt |-> 1], title |-> "S"],
      rating |-> "9", rated_at |-> Instant(3)],
     [type |-> "movie", rating |-> "9", rated_at |-> Instant(3)],
     [type |-> "movie", movie |-> [ids |-> [imdb |-> "tt9"]], rating |-> "9"]}
    \cup {[type |-> "movie",
           movie |-> [ids |-> [trakt |-> k, imdb |-> "tt2"], title |-> "C",
                      year |-> "1999"],
           rating |-> "8", rated_at |-> Instant(3)] : k \in Keys}
    \cup {[type |-> "movie", movie |-> [ids |-> [trakt |-> k]]] : k \in Keys}

Init == InitOver(WatchedItems, RatingItems)

Spec == Init /\ [][Next]_vars

\* date-centred inputs: one key with every kind of timestamp on both sides,
\* and one entry of another key on each side
DatedWatchedItems ==
    {[movie |-> [ids |-> [trakt |-> 1], title |-> "A"], plays |-> 2]}
    \cup {[movie |-> [ids |-> [trakt |-> 1], title |-> "A"],
           last_watched_at |-> ts, plays |-> 2]
          : ts \in {Garbage} \cup {Instant(n) : n \in Times}}
    \cup {[movie |-> [ids |-> [trakt |-> MaxKey], title |-> "B"],
           last_watched_at |-> Instant(1)]}

DatedRatingItems ==
    {[type |-> "movie", movie |-> [ids |-> [trakt |-> 1]], rating |-> "8"]}
    \cup {[type |-> "movie", movie |-> [ids |-> [trakt |-> 1]], rating |-> "8",
           rated_at |-> ts]
          : ts \in {Garbage} \cup {Instant(n) : n \in Times}}
    \cup {[type |-> "movie", movie |-> [ids |-> [trakt |-> MaxKey]],
           rating |-> "6", rated_at |-> Instant(MaxTime)]}

InitDates == InitOver(DatedWatchedItems, DatedRatingItems)

SpecDates == InitDates /\ [][Next]_vars

----------------------------------------------------------------------------
(* The inputs as the statements below speak of them *)

Watched == watchedFile.items
Ratings == ratingsFile.items

HasJoinKey(item) ==
    Has(item, "movie") /\ Has(item.movie, "ids") /\ Has(item.movie.ids, "trakt")

JoinKey(item) == item.movie.ids.trakt

IsWatchEvent(item) == HasJoinKey(item)

IsRatingEvent(item) ==
    HasJoinKey(item) /\ Has(item, "type") /\ item.type = "movie"

WatchEventsOf(k) ==
    {j \in DOMAIN Watched : IsWatchEvent(Watched[j]) /\ JoinKey(Watched[j]) = k}

RatingEventsOf(k) ==
    {j \in DOMAIN Ratings : IsRatingEvent(Ratings[j]) /\ JoinKey(Ratings[j]) = k}

Last(S) == CHOOSE x \in S : \A y \in S : y <= x
First(S) == CHOOSE x \in S : \A y \in S : x <= y

\* the records exist: the projection has run
Finished == pc \in {"write", "done"}

HasOutput(k) == MapHas(mergedMovies, k) /\ MapIndex(mergedMovies, k) \in DOMAIN records
OutputOf(k) == records[MapIndex(mergedMovies, k)]

IsValidTs(ts) == ts.kind = "instant"

\* the date the date-precedence rule names for a watch and a rating timestamp
LaterDate(t1, t2) ==
    IF IsValidTs(t1) /\ IsValidTs(t2)
    THEN IF FormatDate(t1) >= FormatDate(t2) THEN FormatDate(t1) ELSE FormatDate(t2)
    ELSE IF IsValidTs(t1) THEN FormatDate(t1)
    ELSE IF IsValidTs(t2) THEN FormatDate(t2)
    ELSE EmptyDate

----------------------------------------------------------------------------
(* C1 *)

\* C1, as stated: for every key, every watch event of the key (timestamp T1)
\* and every movie rating event of the key (timestamp T2), the output
\* WatchedDate of the key is the later of the two formatted dates, the valid
\* one when only one is valid, and empty when neither is.
C1_AnyPair ==
    Finished =>
        \A k \in Keys :
            \A w \in WatchEventsOf(k) : \A r \in RatingEventsOf(k) :
                /\ HasOutput(k)
                /\ OutputOf(k).WatchedDate =
                       LaterDate(Prop(Watched[w], "last_watched_at"),
                                 Prop(Ratings[r], "rated_at"))

\* C1, amended: for every key with a watch event and exactly one movie
\* rating event, T1 being the timestamp of the key's last watch event and T2
\* that of the rating event, the output WatchedDate is the later of the two
\* formatted dates, the valid one when only one is valid, empty when neither.
C1_DatePrecedence ==
    Finished =>
        \A k \in Keys :
            (WatchEventsOf(k) # {} /\ Cardinality(RatingEventsOf(k)) = 1) =>
                /\ HasOutput(k)
                /\ OutputOf(k).WatchedDate =
                       LaterDate(Prop(Watched[Last(WatchEventsOf(k))], "last_watched_at"),
                                 Prop(Ratings[Last(RatingEventsOf(k))], "rated_at"))

\* a finished run where the rating date of key 1 is later than the watch
\* date and has replaced it
C1_Witness ==
    /\ Finished
    /\ WatchEventsOf(1) # {} /\ Cardinality(RatingEventsOf(1)) = 1
    /\ IsValidTs(Prop(Watched[Last(WatchEventsOf(1))], "last_watched_at"))
    /\ IsValidTs(Prop(Ratings[Last(RatingEventsOf(1))], "rated_at"))
    /\ FormatDate(Prop(Ratings[Last(RatingEventsOf(1))], "rated_at"))
         > FormatDate(Prop(Watched[Last(WatchEventsOf(1))], "last_watched_at"))
    /\ OutputOf(1).WatchedDate
         = FormatDate(Prop(Ratings[Last(RatingEventsOf(1))], "rated_at"))

----------------------------------------------------------------------------
(* C8 *)

\* the rule of C8 for one rating event merged into an existing record
RuleDate(existing, ts) ==
    IF \/ IsValidTs(ts) /\ (Falsy(existing.lastWatchedTimestamp)
                            \/ DateLater(ts, existing.lastWatchedTimestamp))
       \/ existing.WatchedDate = EmptyDate /\ FormatDate(ts) # EmptyDate
    THEN FormatDate(ts)
    ELSE existing.WatchedDate

\* C8: a rating event merged into an existing record sets watchedDate to the
\* formatted rated_at only if rated_at is valid and there is no retained
\* watch timestamp or rated_at is strictly later, or if the current date is
\* empty and the formatted rated_at is not; otherwise, and whenever rated_at
\* is missing or malformed, the date stays, so that a non-empty date is
\* never replaced by the empty string.
C8_DateConflictRule ==
    [][\A k \in Keys :
         (/\ pc = "ratings" /\ pc' = "ratings" /\ idx' = idx + 1
          /\ IsRatingEvent(Ratings[idx]) /\ JoinKey(Ratings[idx]) = k
          /\ MapHas(mergedMovies, k))
         => /\ MapHas(mergedMovies', k)
            /\ MapGet(mergedMovies', k).WatchedDate
                 = RuleDate(MapGet(mergedMovies, k), Prop(Ratings[idx], "rated_at"))
            /\ (MapGet(mergedMovies, k).WatchedDate # EmptyDate
                  => MapGet(mergedMovies', k).WatchedDate # EmptyDate)]_vars

----------------------------------------------------------------------------
(* C2 *)

\* the rating value an event carries, '' when it carries none
RatingValue(item) == IF Has(item, "rating") THEN item.rating ELSE ""

\* C2, as stated: for every key of a rating event, the output Rating10 is the
\* rating value of the key's last rating event and is not empty.
C2_NeverEmpty ==
    Finished =>
        \A k \in Keys :
            RatingEventsOf(k) # {} =>
                /\ HasOutput(k)
                /\ OutputOf(k).Rating10 = RatingValue(Ratings[Last(RatingEventsOf(k))])
                /\ OutputOf(k).Rating10 # ""

\* C2, amended: for every key of a movie rating event, with or without a
\* watch event, the output Rating10 is the rating value of the key's last
\* rating event in input order, which is the empty string exactly when that
\* event carries no rating.
C2_RatingPrecedence ==
    Finished =>
        \A k \in Keys :
            RatingEventsOf(k) # {} =>
                /\ HasOutput(k)
                /\ OutputOf(k).Rating10 = RatingValue(Ratings[Last(RatingEventsOf(k))])

\* a finished run where key 1 was watched, then rated without a value and
\* rated again with one, and shows the later value
C2_Witness ==
    /\ Finished
    /\ WatchEventsOf(1) # {}
    /\ Cardinality(RatingEventsOf(1)) >= 2
    /\ RatingValue(Ratings[First(RatingEventsOf(1))])
         # RatingValue(Ratings[Last(RatingEventsOf(1))])
    /\ OutputOf(1).Rating10 = "8"

----------------------------------------------------------------------------
(* C3 *)

InputKeys ==
    {JoinKey(Watched[j]) : j \in {i \in DOMAIN Watched : IsWatchEvent(Watched[i])}}
    \cup {JoinKey(Ratings[j]) : j \in {i \in DOMAIN Ratings : IsRatingEvent(Ratings[i])}}

EntriesOf(k) == {j \in DOMAIN mergedMovies : mergedMovies[j].traktId = k}

\* C3: after both passes every key of a watch event or of a movie rating
\* event has exactly one record, no other key has one, and there are as many
\* output records as distinct keys.
C3_UnionCoverage ==
    Finished =>
        /\ \A k \in InputKeys : Cardinality(EntriesOf(k)) = 1
        /\ \A j \in DOMAIN mergedMovies : mergedMovies[j].traktId \in InputKeys
        /\ Len(records) = Cardinality(InputKeys)

\* a finished run with a key in both inputs twice over and a second key
C3_Witness ==
    /\ Finished
    /\ Len(Watched) + Len(Ratings) = MaxEvents
    /\ \E k \in Keys : WatchEventsOf(k) # {} /\ RatingEventsOf(k) # {}
    /\ Cardinality(InputKeys) = 2
    /\ Len(records) = 2

----------------------------------------------------------------------------
(* C4 *)

\* C4: the output Rewatch of a record is "Yes" exactly when the record comes
\* from a watch event (the last one of its key, which replaced any earlier
\* one) with more than one play, an absent plays counting as 0; a record
\* made by a rating event is "No"; and no step of the rating pass changes
\* the rewatch flag of a record.
C4_RewatchDerivation ==
    /\ [](Finished =>
            \A k \in MapKeys(mergedMovies) :
                /\ HasOutput(k)
                /\ OutputOf(k).Rewatch \in {"Yes", "No"}
                /\ OutputOf(k).Rewatch = "Yes" <=>
                       /\ WatchEventsOf(k) # {}
                       /\ Has(Watched[Last(WatchEventsOf(k))], "plays")
                       /\ Watched[Last(WatchEventsOf(k))].plays > 1)
    /\ [][pc = "ratings" =>
            /\ \A k \in MapKeys(mergedMovies) :
                   /\ MapHas(mergedMovies', k)
                   /\ MapGet(mergedMovies', k).Rewatch = MapGet(mergedMovies, k).Rewatch
            /\ \A k \in MapKeys(mergedMovies') \ MapKeys(mergedMovies) :
                   ~MapGet(mergedMovies', k).Rewatch]_vars

\* a finished run with a record watched twice and then rated, still "Yes",
\* beside a record watched once, "No"
C4_Witness ==
    /\ Finished
    /\ \E k \in Keys :
          /\ WatchEventsOf(k) # {} /\ RatingEventsOf(k) # {}
          /\ OutputOf(k).Rewatch = "Yes"
    /\ \E k \in Keys :
          /\ WatchEventsOf(k) # {}
          /\ Has(Watched[Last(WatchEventsOf(k))], "plays")
          /\ Watched[Last(WatchEventsOf(k))].plays = 1
          /\ OutputOf(k).Rewatch = "No"

----------------------------------------------------------------------------
(* C5 *)

RemoveAt(s, j) == SubSeq(s, 1, j - 1) \o SubSeq(s, j + 1, Len(s))

MalformedWatched == {j \in DOMAIN Watched : ~IsWatchEvent(Watched[j])}
MalformedRatings == {j \in DOMAIN Ratings : ~IsRatingEvent(Ratings[j])}

----------------------------------------------------------------------------
(* C6 *)

ReadFailed(file) == file.kind \in {"missing", "garbled"}

\* C6: when either file is missing or unparseable the run ends at the check
\* of line 55, before any step of a pass, and the CSV is never written; the
\* write is reached only with both collections read.
C6_FatalInput ==
    /\ (ReadFailed(watchedFile) \/ ReadFailed(ratingsFile)) =>
           /\ pc \in {"start", "readRatings", "check", "exit"}
           /\ mergedMovies = <<>> /\ records = <<>> /\ idx = 1
           /\ csv = NoCsv
    /\ (pc \in {"write", "done"} \/ csv # NoCsv) =>
           /\ watchedFile.kind = "array" /\ watchedData = watchedFile
           /\ ratingsFile.kind = "array" /\ ratingsData = ratingsFile

\* the run has returned at line 57: the watch file held entries, the
\* ratings file could not be read
C6_Witness ==
    /\ pc = "exit"
    /\ watchedFile.kind = "array" /\ Len(Watched) > 0
    /\ ReadFailed(ratingsFile)
    /\ csv = NoCsv

----------------------------------------------------------------------------
(* C7 *)

Range(s) == {s[j] : j \in DOMAIN s}

RECURSIVE KeysOf(_)
KeysOf(items) ==
    IF items = <<>> THEN <<>> ELSE <<JoinKey(Head(items))>> \o KeysOf(Tail(items))

\* each key once, at the place of its first occurrence
RECURSIVE FirstOccurrences(_)
FirstOccurrences(s) ==
    IF s = <<>> THEN <<>>
    ELSE LET front == FirstOccurrences(SubSeq(s, 1, Len(s) - 1))
         IN IF s[Len(s)] \in Range(front) THEN front ELSE Append(front, s[Len(s)])

FirstAppearance ==
    FirstOccurrences(KeysOf(SelectSeq(Watched, IsWatchEvent))
                     \o KeysOf(SelectSeq(Ratings, IsRatingEvent)))

\* C7: the output records follow the first appearance of their keys, the
\* keys of watch events in the order of their first watch event, then the
\* keys the rating events add in the order of their first rating event; the
\* projection keeps that order, and no step moves a key that has a place.
C7_OutputOrder ==
    /\ [](Finished =>
            /\ [j \in DOMAIN mergedMovies |-> mergedMovies[j].traktId] = FirstAppearance
            /\ Len(records) = Len(mergedMovies)
            /\ \A j \in DOMAIN records :
                   /\ records[j].Title = mergedMovies[j].Title
                   /\ records[j].imdbID = mergedMovies[j].imdbID
                   /\ records[j].Rating10 = mergedMovies[j].Rating10
                   /\ records[j].WatchedDate = mergedMovies[j].WatchedDate)
    /\ [][\A j \in DOMAIN mergedMovies :
            /\ j \in DOMAIN mergedMovies'
            /\ mergedMovies'[j].traktId = mergedMovies[j].traktId]_vars

\* a finished run where the key seen first was seen again after another key
\* and still comes first
C7_Witness ==
    /\ Finished
    /\ Len(records) = 2
    /\ \E a, b, c \in DOMAIN Watched :
          /\ a < b /\ b < c
          /\ IsWatchEvent(Watched[a]) /\ IsWatchEvent(Watched[b]) /\ IsWatchEvent(Watched[c])
          /\ JoinKey(Watched[a]) = JoinKey(Watched[c])
          /\ JoinKey(Watched[a]) # JoinKey(Watched[b])
          /\ mergedMovies[1].traktId = JoinKey(Watched[a])
          /\ mergedMovies[2].traktId = JoinKey(Watched[b])

----------------------------------------------------------------------------
(* C9 *)

Identity(movie) ==
    <<movie.traktId, movie.imdbID, movie.tmdbID, movie.Title, movie.Year>>

TextOf(obj, f) == IF Has(obj, f) THEN obj[f] ELSE ""

EventIdentity(item) ==
    <<JoinKey(item), TextOf(item.movie.ids, "imdb"), TextOf(item.movie.ids, "tmdb"),
      TextOf(item.movie, "title"), TextOf(item.movie, "year")>>

\* C9, as stated: once a record exists, no later step, be it of a watch
\* event or of a rating event with the same key, changes its id, imdb, tmdb,
\* title or year.
C9_FrozenAlways ==
    [][\A k \in MapKeys(mergedMovies) :
          /\ MapHas(mergedMovies', k)
          /\ Identity(MapGet(mergedMovies', k)) = Identity(MapGet(mergedMovies, k))]_vars

\* C9, amended: a later watch event with the same key replaces the record
\* whole, identity fields included; from the end of the seed pass on, the
\* id, imdb, tmdb, title and year of a record keep their values through
\* every rating event: they are those of the key's last watch event, or of
\* its first rating event when no watch event has the key.
C9_FrozenThroughRatings ==
    /\ [](Finished =>
            \A k \in MapKeys(mergedMovies) :
                /\ WatchEventsOf(k) # {} \/ RatingEventsOf(k) # {}
                /\ Identity(MapGet(mergedMovies, k)) =
                       IF WatchEventsOf(k) # {}
                       THEN EventIdentity(Watched[Last(WatchEventsOf(k))])
                       ELSE EventIdentity(Ratings[First(RatingEventsOf(k))]))
    /\ [][pc = "ratings" =>
            \A k \in MapKeys(mergedMovies) :
                /\ MapHas(mergedMovies', k)
                /\ Identity(MapGet(mergedMovies', k)) = Identity(MapGet(mergedMovies, k))]_vars

\* a finished run where key 1 was watched under one title and rated under
\* another, and keeps the title of the watch event
C9_Witness ==
    /\ Finished
    /\ WatchEventsOf(1) # {} /\ RatingEventsOf(1) # {}
    /\ TextOf(Ratings[Last(RatingEventsOf(1))].movie, "title") = "C"
    /\ OutputOf(1).Title = "A"
    /\ OutputOf(1).Rating10 = "8"

----------------------------------------------------------------------------
(* C10 *)

\* how many entries of each input the passes have visited
WatchedVisited ==
    IF pc = "watched" THEN idx - 1
    ELSE IF pc \in {"ratings", "write", "done"} THEN Len(Watched)
    ELSE IF pc = "crashed" /\ watchedData.kind = "array" THEN Len(Watched)
    ELSE 0

RatingsVisited ==
    IF pc = "ratings" THEN idx - 1
    ELSE IF pc \in {"write", "done"} THEN Len(Ratings)
    ELSE 0

SeenCount(k) ==
    Cardinality({j \in 1..WatchedVisited :
                    IsWatchEvent(Watched[j]) /\ JoinKey(Watched[j]) = k})
    + Cardinality({j \in 1..RatingsVisited :
                      IsRatingEvent(Ratings[j]) /\ JoinKey(Ratings[j]) = k})

\* C10, as stated: a record exists exactly from the first event of its key
\* on, and is written at most once after its creation.
C10_AtMostOneUpdate ==
    \A k \in Keys :
        /\ MapHas(mergedMovies, k) <=> SeenCount(k) > 0
        /\ updates[k] <= 1

\* C10, amended: a record is created exactly when its key is first seen and
\* is never deleted afterwards; it is written again by every later event
\* with its key, replaced by a watch event and updated by a rating event, so
\* as many times as the key has later events.
C10_Lifecycle ==
    /\ [](\A k \in Keys :
            LET seen == SeenCount(k)
            IN /\ MapHas(mergedMovies, k) <=> seen > 0
               /\ updates[k] = IF seen > 0 THEN seen - 1 ELSE 0)
    /\ [][\A k \in MapKeys(mergedMovies) : MapHas(mergedMovies', k)]_vars

\* a finished run with a record written twice after its creation
C10_Witness ==
    /\ Finished
    /\ \E k \in Keys : updates[k] = 2 /\ MapHas(mergedMovies, k)

====
